---------------------------- MODULE Spec2Model ----------------------------
(* A model of the DCInside crawler: DCArticleCrawler.run and the functions  *)
(* it calls (check_gallery_conditions, check_scrapping_conditions,          *)
(* load_collected_gall_no, save_data_in_batch) and of the post adapter      *)
(* DCArticleProcessor.process_article, as a state machine whose steps are   *)
(* the statements of run() between which a KeyboardInterrupt can arrive.    *)
(*                                                                          *)
(* Python's None is the empty tuple and a value x is the 1-tuple <<x>>.     *)
(* A date is a day of May 2025: the text "2025.05.02" parses to day 2.      *)
(* View and vote counters of a fetched page are taken to be digit strings,  *)
(* so the int() coercions of save_data_in_batch succeed.                    *)
EXTENDS Integers, Sequences, FiniteSets, TLC

\* ---------------------------------------------------------------- bounds
\* Post ids and id bounds range over 0..MaxId.
MaxId == 3
\* maximum_batch_size ranges over 1..MaxBatch.
MaxBatch == 2
\* The descending cursor of date mode is followed down to Floor, not further.
Floor == 0
\* The files load_collected_gall_no is applied to have at most MaxLines lines.
MaxLines == 3
\* A comment page holds at most MaxComments comments of at most MaxReplies
\* replies each.
MaxComments == 2
MaxReplies == 1

\* ------------------------------------------------------------ Python values
None == << >>
Some(x) == << x >>
Val(o) == o[1]

\* bool(x) of an optional integer: None and 0 are falsy.
bool_int(o) == o # None /\ Val(o) # 0
\* bool(x) of an optional string: None and "" are falsy.
bool_str(o) == o # None /\ Val(o) # ""

\* datetime.datetime.strptime(s, DATE_FORMAT): the day, or None for ValueError.
strptime(s) ==
    CASE s = "2025.05.01" -> Some(1)
      [] s = "2025.05.02" -> Some(2)
      [] s = "2025.05.03" -> Some(3)
      [] OTHER -> None

\* date.strftime(DATE_FORMAT).
strftime(d) ==
    CASE d = 1 -> "2025.05.01"
      [] d = 2 -> "2025.05.02"
      [] d = 3 -> "2025.05.03"
      [] OTHER -> "2025.05.00"

\* --------------------------------------------------------- configurations
IdBounds == {None} \cup {Some(n) : n \in 0..MaxId}
DateBounds == {None, Some(""), Some("2025.05.02"), Some("2025.05.03")}

\* ------------------------------------------------------------- the board
\* The text of span.gall_date as the tokens text.split() yields: no token
\* (blank text), a token strptime rejects, or a date and a time.
DateTexts ==
    { << >>, << "2025/05/02" >>,
      << "2025.05.01", "10:00:00" >>,
      << "2025.05.02", "10:00:00" >>,
      << "2025.05.03", "10:00:00" >> }

\* What requests.get returns for a post: net = FALSE is a RequestException,
\* date_text = None a page without span.gall_date (a deleted post), title and
\* counts say whether span.title_subject and the counter elements exist.
Pages ==
    { [net |-> FALSE, date_text |-> None, title |-> FALSE, counts |-> FALSE],
      [net |-> TRUE, date_text |-> None, title |-> FALSE, counts |-> FALSE] }
    \cup
    { [net |-> TRUE, date_text |-> Some(t), title |-> ti, counts |-> co] :
        t \in DateTexts, ti \in BOOLEAN, co \in BOOLEAN }

\* The text p.get_text(strip=True) extracts from a comment or a reply: none
\* (a sticker or an image), a text, or only the mark of the mobile app.
RawTexts == {"", "hi", "- dc official App"}

\* text.replace('- dc official App', '').
replace(text) == IF text = "- dc official App" THEN "" ELSE text

\* A top-level li of ul.cmt_list with the li of its reply list.
RawComment(text, replies) == [text |-> text, replies |-> replies]

\* What the browser yields for the comments of a post: driver.get raises,
\* both waits time out, the parsing of the page source raises, or the page
\* source holds a list of comments.
CommentPage(load, raw) == [load |-> load, raw |-> raw]

\* The comment pages of a run: the three failures and one list of comments.
CommentOutcomes ==
    { CommentPage("driver_error", << >>),
      CommentPage("timeout", << >>),
      CommentPage("parse_error", << >>),
      CommentPage("ok", << RawComment("", << >>),
                           RawComment("hi", << "", "hi" >>) >>) }

\* The comment pages with at most MaxComments comments of at most MaxReplies
\* replies each.
RawReplies == UNION { [1..n -> RawTexts] : n \in 0..MaxReplies }
RawComments == { RawComment(t, r) : t \in RawTexts, r \in RawReplies }
RawCommentPages ==
    { CommentPage("ok", raw) :
        raw \in UNION { [1..n -> RawComments] : n \in 0..MaxComments } }

\* An exception, no record, or a record.
Raise(e) == [kind |-> "raise", exc |-> e, rec |-> None]
NoRecord == [kind |-> "none", exc |-> "", rec |-> None]
Record(r) == [kind |-> "rec", exc |-> "", rec |-> Some(r)]

\* parse_date(text): text.split()[0] raises IndexError on blank text;
\* a ValueError of strptime gives None.
parse_date(text) ==
    IF text = << >> THEN Raise("IndexError")
    ELSE [kind |-> "date", exc |-> "", rec |-> strptime(Head(text))]

\* DCArticleProcessor.crawl_except_comment: select_one(...).text of a missing
\* title or counter element raises AttributeError ('NoneType' has no 'text').
crawl_except_comment(page, no) ==
    IF ~page.net THEN NoRecord
    ELSE IF page.date_text = None THEN NoRecord
    ELSE LET date == parse_date(Val(page.date_text))
         IN IF date.kind = "raise" THEN date
            ELSE IF ~page.title THEN Raise("AttributeError(text)")
            ELSE IF ~page.counts THEN Raise("AttributeError(text)")
            ELSE Record([gall_no |-> no, date |-> date.rec])

\* The replies of one comment: a reply of empty text is skipped, the mark of
\* the app is removed from the others.
crawl_replies(raw) ==
    LET kept == SelectSeq(raw, LAMBDA rtext : rtext # "")
    IN [i \in DOMAIN kept |-> replace(kept[i])]

\* The loop over the comments: a comment of empty text is skipped, the mark of
\* the app is removed from the others.
crawl_comment_list(raw) ==
    LET kept == SelectSeq(raw, LAMBDA c : c.text # "")
    IN [i \in DOMAIN kept |->
           [text |-> replace(kept[i].text),
            replies |-> crawl_replies(kept[i].replies)]]

\* DCArticleProcessor.crawl_comments: driver.get may raise, two timeouts give
\* [], a parse error gives None.
crawl_comments(cm) ==
    CASE cm.load = "driver_error" -> Raise("WebDriverException")
      [] cm.load = "timeout" -> Record(<< >>)
      [] cm.load = "parse_error" -> NoRecord
      [] OTHER -> Record(crawl_comment_list(cm.raw))

\* DCArticleProcessor.process_article: an ArticleData, None or an exception.
\* date_is_str records that save_data_in_batch has replaced the date by text.
process_article(page, cm, no, is_crawl_comments) ==
    LET article_data == crawl_except_comment(page, no)
    IN IF article_data.kind # "rec" THEN article_data
       ELSE LET comments == IF is_crawl_comments THEN crawl_comments(cm)
                            ELSE Record(<< >>)
            IN IF comments.kind # "rec" THEN comments
               ELSE Record([gall_no |-> no,
                            date |-> Val(article_data.rec).date,
                            date_is_str |-> FALSE,
                            comments |-> Val(comments.rec)])

\* ------------------------------------------------------ the durable store
\* A line of the JSONL file: a record written by save_data_in_batch, a line
\* json.loads rejects, or valid JSON without a usable gall_no.
RecordLine(no, date, comments) ==
    [kind |-> "record", gall_no |-> no, date |-> date, comments |-> comments]
BadJsonLine == [kind |-> "badjson", gall_no |-> 0, date |-> None, comments |-> << >>]
NoKeyLine == [kind |-> "nokey", gall_no |-> 0, date |-> None, comments |-> << >>]

\* The loop of load_collected_gall_no: a JSONDecodeError skips the line, any
\* other exception leaves the loop (None here).
RECURSIVE load_lines(_, _)
load_lines(lines, acc) ==
    IF lines = << >> THEN Some(acc)
    ELSE LET line == Head(lines)
         IN IF line.kind = "badjson" THEN load_lines(Tail(lines), acc)
            ELSE IF line.kind = "nokey" THEN None
            ELSE load_lines(Tail(lines), acc \cup {line.gall_no})

\* A load that finds nothing.
load_collected_gall_no_forgets(file) == {}

\* load_collected_gall_no: the bare except returns set().
load_collected_gall_no(file) ==
    LET r == load_lines(file, {})
    IN IF r = None THEN {} ELSE Val(r)

\* The line json.dump writes for one article of the batch: the date as text
\* (None stays null), the header dropped.
dump_article(article) ==
    RecordLine(article.gall_no,
               IF article.date = None THEN None
               ELSE Some(strftime(Val(article.date))),
               article.comments)

\* The index of the first None of a batch, Len + 1 without one.
first_none(b) ==
    IF \E i \in 1..Len(b) : b[i] = None
    THEN CHOOSE i \in 1..Len(b) : b[i] = None /\ \A j \in 1..(i - 1) : b[j] # None
    ELSE Len(b) + 1

\* The lines save_data_in_batch writes for a batch without None.
dump_articles(b) == [i \in 1..Len(b) |-> dump_article(Val(b[i]))]

\* The article after the in-place normalisation of save_data_in_batch.
normalise(article) ==
    [article EXCEPT !.date_is_str = (article.date # None)]

\* ------------------------------------------------- check_scrapping_conditions
ConfigurationError == [error |-> "ConfigurationError", by_gall_no |-> None,
                       start_dt |-> None, end_dt |-> None]

\* check_scrapping_conditions without the test for both ranges.
check_scrapping_conditions_no_both(sg, eg, sd, ed) ==
    IF bool_int(sg) # bool_int(eg) THEN ConfigurationError
    ELSE IF bool_str(sd) # bool_str(ed) THEN ConfigurationError
    ELSE LET has_gall_no_range == sg # None /\ eg # None
             has_date_range == sd # None /\ ed # None
         IN IF ~(has_gall_no_range \/ has_date_range) THEN ConfigurationError
            ELSE IF has_gall_no_range
                 THEN IF Val(sg) > Val(eg) THEN ConfigurationError
                      ELSE [error |-> "none", by_gall_no |-> Some(TRUE),
                            start_dt |-> None, end_dt |-> None]
                 ELSE ConfigurationError

\* check_scrapping_conditions up to the recent-id lookup: the error, or the
\* mode (crawl_article_based_on_gall_no) and the parsed dates.
check_scrapping_conditions(sg, eg, sd, ed) ==
    IF bool_int(sg) # bool_int(eg) THEN ConfigurationError
    ELSE IF bool_str(sd) # bool_str(ed) THEN ConfigurationError
    ELSE LET has_gall_no_range == sg # None /\ eg # None
             has_date_range == sd # None /\ ed # None
         IN IF ~(has_gall_no_range \/ has_date_range) THEN ConfigurationError
            ELSE IF has_gall_no_range /\ has_date_range THEN ConfigurationError
            ELSE IF has_gall_no_range
                 THEN IF Val(sg) > Val(eg) THEN ConfigurationError
                      ELSE [error |-> "none", by_gall_no |-> Some(TRUE),
                            start_dt |-> None, end_dt |-> None]
                 ELSE LET s == strptime(Val(sd))
                          e == strptime(Val(ed))
                      IN IF s = None \/ e = None THEN ConfigurationError
                         ELSE IF Val(s) > Val(e) THEN ConfigurationError
                         ELSE [error |-> "none", by_gall_no |-> Some(FALSE),
                               start_dt |-> s, end_dt |-> e]

\* ------------------------------------------------------- network activity
\* webdriver.Chrome(...) of _init_driver, requests.get of the listing page in
\* check_gallery_conditions and in check_scrapping_conditions, and the fetch
\* of a post by process_article, with or without its comments.
DriverStart == [kind |-> "driver", gall_no |-> 0, comments |-> FALSE]
GalleryRequest == [kind |-> "gallery", gall_no |-> 0, comments |-> FALSE]
RecentRequest == [kind |-> "recent", gall_no |-> 0, comments |-> FALSE]
PostFetch(no, with_comments) ==
    [kind |-> "post", gall_no |-> no, comments |-> with_comments]

\* ------------------------------------------------------------------ state
VARIABLES
    start_gall_no, end_gall_no,   \* the id bounds given to the constructor
    start_date, end_date,         \* the date bounds given to the constructor
    start_dt, end_dt,             \* self.start_date, self.end_date once parsed
    is_crawl_comments,
    maximum_batch_size,
    board,                        \* the posts of the gallery, where they are fixed
    driver,                       \* "open" from __init__ on, "quit" after quit()
    pc,                           \* the position in run()
    gall_no,                      \* self.gall_no, the cursor
    crawl_article_based_on_gall_no,
    collected_gall_no,
    batch,
    article_data,
    save_i,                       \* save_data_in_batch: the next batch index
    save_ret,                     \* save_data_in_batch: the call site
    store,                        \* the lines of the file at jsonl_path
    error,                        \* the exception run() ended with
    interrupted,                  \* a KeyboardInterrupt arrived in this run
    rerun,                        \* this is the second run over the store
    store0,                       \* the store when this run started
    appended,                     \* the records appended to batch in this run
    flushes,                      \* the sizes of the completed flushes
    slept,                        \* time.sleep was called since the last fetch
    requests                      \* the driver start and the requests so far

config == << start_gall_no, end_gall_no, start_date, end_date,
             is_crawl_comments, maximum_batch_size, board >>
history == << interrupted, rerun, store0, appended,
              flushes, slept, requests >>
vars == << config, start_dt, end_dt, driver, pc, gall_no,
           crawl_article_based_on_gall_no, collected_gall_no, batch,
           article_data, save_i, save_ret, store, error, history >>

\* The stores a run can start from: none, or what earlier runs left, with a
\* line cut short by a crash.
InitialStores ==
    { << >>,
      << BadJsonLine, RecordLine(1, Some("2025.05.02"), << >>) >> }

\* Exactly one bound of the pair is given.
half_set(a, b) == (a = None) # (b = None)

\* The object after __init__, before run(). The arguments with a half-set
\* pair are followed with the smallest batch, no comments and an empty store.
Init ==
    /\ start_gall_no \in IdBounds
    /\ end_gall_no \in IdBounds
    /\ start_date \in DateBounds
    /\ end_date \in DateBounds
    /\ is_crawl_comments \in BOOLEAN
    /\ maximum_batch_size \in 1..MaxBatch
    /\ store \in InitialStores
    /\ (half_set(start_gall_no, end_gall_no) \/ half_set(start_date, end_date))
          => (~is_crawl_comments /\ maximum_batch_size = 1 /\ store = << >>)
    /\ board = << >>
    /\ start_dt = None
    /\ end_dt = None
    /\ driver = "open"
    /\ pc = "run"
    /\ gall_no = 0
    /\ crawl_article_based_on_gall_no = None
    /\ collected_gall_no = {}
    /\ batch = << >>
    /\ article_data = None
    /\ save_i = 1
    /\ save_ret = "none"
    /\ error = "none"
    /\ interrupted = FALSE
    /\ rerun = FALSE
    /\ store0 = store
    /\ appended = << >>
    /\ flushes = << >>
    /\ slept = FALSE
    /\ requests = << DriverStart >>

\* ------------------------------------------------------------ ways out
\* The locals of run() and of the save_data_in_batch call in progress.
locals == << batch, article_data, save_i, save_ret >>

\* run() is over: its locals are gone.
DropLocals ==
    /\ batch' = << >>
    /\ article_data' = None
    /\ save_i' = 1
    /\ save_ret' = "none"

\* An exception raised before the try statement of run(): the finally clause
\* is not reached and the driver stays as it is.
RaiseBeforeTry(e) ==
    /\ pc' = "exited"
    /\ error' = e
    /\ UNCHANGED driver

\* Leaving the try statement: the finally clause quits the driver; e is the
\* exception that goes on to the caller ("none" for a return).
LeaveTry(e) ==
    /\ pc' = "exited"
    /\ error' = e
    /\ driver' = "quit"

\* A threshold test with > for >=.
threshold_reached_late(b) == Len(b) > maximum_batch_size

\* len(batch) >= self.maximum_batch_size.
threshold_reached(b) == Len(b) >= maximum_batch_size

\* The call save_data_in_batch(self.jsonl_path, batch) at call site `site`.
CallSave(site) ==
    /\ pc' = "save"
    /\ save_i' = 1
    /\ save_ret' = site

\* After an append: the threshold test, then the flush or the advance.
AfterAppend(b, site, advance) ==
    IF threshold_reached(b) THEN CallSave(site)
    ELSE pc' = advance /\ UNCHANGED << save_i, save_ret >>

\* ------------------------------------------------------- run(): the checks
\* check_gallery_conditions: a 404 of the listing page raises ValueError.
CheckGalleryConditions ==
    /\ pc = "run"
    /\ \E status_code \in {200, 404} :
          IF status_code = 404
          THEN RaiseBeforeTry("NotFoundError(gallery)")
          ELSE pc' = "scrapping" /\ UNCHANGED << error, driver >>
    /\ requests' = Append(requests, GalleryRequest)
    /\ UNCHANGED << config, start_dt, end_dt, gall_no,
                    crawl_article_based_on_gall_no, collected_gall_no, locals,
                    store, interrupted, rerun, store0, appended, flushes,
                    slept >>

\* check_scrapping_conditions, with select_recent_gall_no in date mode: the
\* listing has no regular row (ValueError) or names a recent id.
CheckScrappingConditions ==
    /\ pc = "scrapping"
    /\ LET r == check_scrapping_conditions(start_gall_no, end_gall_no,
                                           start_date, end_date)
       IN \/ /\ r.error # "none"
             /\ RaiseBeforeTry(r.error)
             /\ UNCHANGED << start_dt, end_dt, gall_no,
                             crawl_article_based_on_gall_no, requests >>
          \/ /\ r.error = "none"
             /\ r.by_gall_no = Some(TRUE)
             /\ gall_no' = Val(start_gall_no)
             /\ crawl_article_based_on_gall_no' = r.by_gall_no
             /\ pc' = "load"
             /\ UNCHANGED << start_dt, end_dt, error, driver, requests >>
          \/ /\ r.error = "none"
             /\ r.by_gall_no = Some(FALSE)
             /\ start_dt' = r.start_dt
             /\ end_dt' = r.end_dt
             /\ requests' = Append(requests, RecentRequest)
             /\ \E recent_gall_no \in {None} \cup {Some(n) : n \in 0..MaxId} :
                   IF recent_gall_no = None
                   THEN /\ RaiseBeforeTry("NotFoundError(recent)")
                        /\ UNCHANGED << gall_no, crawl_article_based_on_gall_no >>
                   ELSE /\ gall_no' = Val(recent_gall_no)
                        /\ crawl_article_based_on_gall_no' = r.by_gall_no
                        /\ pc' = "load"
                        /\ UNCHANGED << error, driver >>
    /\ UNCHANGED << config, collected_gall_no, locals, store, interrupted,
                    rerun, store0, appended, flushes, slept >>

\* collected_gall_no = load_collected_gall_no(self.jsonl_path); batch = [].
LoadCollected ==
    /\ pc = "load"
    /\ collected_gall_no' = load_collected_gall_no(store)
    /\ batch' = << >>
    /\ pc' = IF Val(crawl_article_based_on_gall_no) THEN "id_loop" ELSE "date_loop"
    /\ UNCHANGED << config, start_dt, end_dt, driver, gall_no,
                    crawl_article_based_on_gall_no, article_data, save_i,
                    save_ret, store, error, history >>

\* --------------------------------------------------- run(): the id loop
\* while self.gall_no <= self.end_gall_no fails: the final flush.
IdLoopExit ==
    /\ pc = "id_loop"
    /\ ~(gall_no <= Val(end_gall_no))
    /\ CallSave("id_final")
    /\ UNCHANGED << config, start_dt, end_dt, driver, gall_no,
                    crawl_article_based_on_gall_no, collected_gall_no, batch,
                    article_data, store, error, history >>

\* The cursor is in collected_gall_no: advance without a fetch or a sleep.
IdSkip ==
    /\ pc = "id_loop"
    /\ gall_no <= Val(end_gall_no)
    /\ gall_no \in collected_gall_no
    /\ gall_no' = gall_no + 1
    /\ UNCHANGED << config, start_dt, end_dt, driver, pc,
                    crawl_article_based_on_gall_no, collected_gall_no, locals,
                    store, error, history >>

\* article_data = article_processor.process_article(), for a post page of
\* `pages` and a comment page of `outcomes`; an exception of the adapter is
\* caught nowhere in run() and leaves through finally.
IdFetchOf(pages, outcomes) ==
    /\ pc = "id_loop"
    /\ gall_no <= Val(end_gall_no)
    /\ gall_no \notin collected_gall_no
    /\ \E page \in pages, cm \in outcomes :
          LET r == process_article(page, cm, gall_no, is_crawl_comments)
          IN IF r.kind = "raise"
             THEN LeaveTry(r.exc) /\ DropLocals
             ELSE /\ article_data' = r.rec
                  /\ pc' = "id_got"
                  /\ UNCHANGED << error, driver, batch, save_i, save_ret >>
    /\ slept' = FALSE
    /\ requests' = Append(requests, PostFetch(gall_no, is_crawl_comments))
    /\ UNCHANGED << config, start_dt, end_dt, gall_no,
                    crawl_article_based_on_gall_no, collected_gall_no, store,
                    interrupted, rerun, store0, appended,
                    flushes >>

\* The fetch of the id loop over the board of a run.
IdFetch == IdFetchOf(Pages, CommentOutcomes)

\* The fetch of the id loop of a post that is there, over every comment page.
IdFetchComments ==
    IdFetchOf({ [net |-> TRUE, date_text |-> Some(<< "2025.05.02", "10:00:00" >>),
                 title |-> TRUE, counts |-> TRUE] },
              RawCommentPages)

\* if article_data is not None: batch.append(article_data); then the
\* threshold test.
IdCollect ==
    /\ pc = "id_got"
    /\ batch' = IF article_data # None THEN Append(batch, article_data) ELSE batch
    /\ appended' = IF article_data # None
                   THEN Append(appended, Val(article_data)) ELSE appended
    /\ AfterAppend(batch', "id", "id_adv")
    /\ UNCHANGED << config, start_dt, end_dt, driver, gall_no,
                    crawl_article_based_on_gall_no, collected_gall_no,
                    article_data, store, error, interrupted, rerun,
                    store0, flushes, slept, requests >>

\* An advance of the id cursor by two.
IdAdvance_by_two ==
    /\ pc = "id_adv"
    /\ gall_no' = gall_no + 2
    /\ slept' = TRUE
    /\ pc' = "id_loop"
    /\ UNCHANGED << config, start_dt, end_dt, driver,
                    crawl_article_based_on_gall_no, collected_gall_no, locals,
                    store, error, interrupted, rerun, store0, appended, flushes,
                    requests >>

\* self.gall_no += 1; time.sleep(...).
IdAdvance ==
    /\ pc = "id_adv"
    /\ gall_no' = gall_no + 1
    /\ slept' = TRUE
    /\ pc' = "id_loop"
    /\ UNCHANGED << config, start_dt, end_dt, driver,
                    crawl_article_based_on_gall_no, collected_gall_no, locals,
                    store, error, interrupted, rerun, store0, appended, flushes,
                    requests >>

\* ------------------------------------------------ save_data_in_batch
\* save_data_in_batch with the file opened in mode 'w': the first line of a
\* call replaces what the file held.
SaveWrite_truncates ==
    /\ pc = "save"
    /\ save_i <= Len(batch)
    /\ IF batch[save_i] = None
       THEN /\ LeaveTry("AttributeError(date)")
            /\ DropLocals
            /\ UNCHANGED store
       ELSE /\ store' = IF save_i = 1
                        THEN << dump_article(Val(batch[save_i])) >>
                        ELSE Append(store, dump_article(Val(batch[save_i])))
            /\ batch' = [batch EXCEPT ![save_i] = Some(normalise(Val(@)))]
            /\ save_i' = save_i + 1
            /\ UNCHANGED << pc, error, driver, article_data, save_ret >>
    /\ UNCHANGED << config, start_dt, end_dt, gall_no,
                    crawl_article_based_on_gall_no, collected_gall_no, history >>

\* One turn of `for article in batch`: article.date of a None element raises
\* AttributeError ('NoneType' has no 'date'), which no clause of run()
\* catches; otherwise the article is
\* normalised in place and its line is appended to the file.
SaveWrite ==
    /\ pc = "save"
    /\ save_i <= Len(batch)
    /\ IF batch[save_i] = None
       THEN /\ LeaveTry("AttributeError(date)")
            /\ DropLocals
            /\ UNCHANGED store
       ELSE /\ store' = Append(store, dump_article(Val(batch[save_i])))
            /\ batch' = [batch EXCEPT ![save_i] = Some(normalise(Val(@)))]
            /\ save_i' = save_i + 1
            /\ UNCHANGED << pc, error, driver, article_data, save_ret >>
    /\ UNCHANGED << config, start_dt, end_dt, gall_no,
                    crawl_article_based_on_gall_no, collected_gall_no, history >>

\* save_data_in_batch has returned: batch.clear(), then what follows the call
\* site: the advance inside a loop, the end of run() after a loop.
BatchClear ==
    /\ pc = "save"
    /\ save_i > Len(batch)
    /\ flushes' = Append(flushes, Len(batch))
    /\ CASE save_ret = "id" ->
               /\ pc' = "id_adv"
               /\ batch' = << >>
               /\ UNCHANGED << error, driver, article_data, save_i, save_ret >>
         [] save_ret = "date" ->
               /\ pc' = "date_adv"
               /\ batch' = << >>
               /\ UNCHANGED << error, driver, article_data, save_i, save_ret >>
         [] OTHER -> LeaveTry("none") /\ DropLocals
    /\ UNCHANGED << config, start_dt, end_dt, gall_no,
                    crawl_article_based_on_gall_no, collected_gall_no, store,
                    interrupted, rerun, store0, appended,
                    slept, requests >>

\* ------------------------------------------------- run(): the date loop
\* The first fetch of an iteration, without comments, for a post page of
\* `pages` and a comment page of `outcomes`. The model follows the cursor down
\* to Floor.
DateFetchOf(pages, outcomes) ==
    /\ pc = "date_loop"
    /\ gall_no >= Floor
    /\ \E page \in pages, cm \in outcomes :
          LET r == process_article(page, cm, gall_no, FALSE)
          IN IF r.kind = "raise"
             THEN LeaveTry(r.exc) /\ DropLocals
             ELSE /\ article_data' = r.rec
                  /\ pc' = "date_got"
                  /\ UNCHANGED << error, driver, batch, save_i, save_ret >>
    /\ slept' = FALSE
    /\ requests' = Append(requests, PostFetch(gall_no, FALSE))
    /\ UNCHANGED << config, start_dt, end_dt, gall_no,
                    crawl_article_based_on_gall_no, collected_gall_no, store,
                    interrupted, rerun, store0, appended,
                    flushes >>

\* The first fetch of an iteration over the board of a run.
DateFetch == DateFetchOf(Pages, CommentOutcomes)

\* A deleted post handled like the other outcomes: the decrement and the sleep.
DateNone_sleeps ==
    /\ pc = "date_got"
    /\ article_data = None
    /\ gall_no' = gall_no - 1
    /\ slept' = TRUE
    /\ pc' = "date_loop"
    /\ UNCHANGED << config, start_dt, end_dt, driver,
                    crawl_article_based_on_gall_no, collected_gall_no, locals,
                    store, error, interrupted, rerun, store0, appended,
                    flushes, requests >>

\* if article_data is None: self.gall_no -= 1; continue.
DateNone ==
    /\ pc = "date_got"
    /\ article_data = None
    /\ gall_no' = gall_no - 1
    /\ pc' = "date_loop"
    /\ UNCHANGED << config, start_dt, end_dt, driver,
                    crawl_article_based_on_gall_no, collected_gall_no, locals,
                    store, error, history >>

\* self.start_date <= article_data.date with a date of None: TypeError.
DateNullDate ==
    /\ pc = "date_got"
    /\ article_data # None
    /\ Val(article_data).date = None
    /\ LeaveTry("TypeError")
    /\ DropLocals
    /\ UNCHANGED << config, start_dt, end_dt, gall_no,
                    crawl_article_based_on_gall_no, collected_gall_no, store,
                    history >>

\* start_date <= date <= end_date: skip a collected id, append the record, or
\* go on to the fetch with comments.
DateInWindow ==
    /\ pc = "date_got"
    /\ article_data # None
    /\ Val(article_data).date # None
    /\ Val(start_dt) <= Val(Val(article_data).date)
    /\ Val(Val(article_data).date) <= Val(end_dt)
    /\ IF gall_no \in collected_gall_no
       THEN /\ pc' = "date_adv"
            /\ UNCHANGED << batch, appended, save_i, save_ret >>
       ELSE IF ~is_crawl_comments
            THEN /\ batch' = Append(batch, article_data)
                 /\ appended' = Append(appended, Val(article_data))
                 /\ AfterAppend(batch', "date", "date_adv")
            ELSE /\ pc' = "date_second"
                 /\ UNCHANGED << batch, appended, save_i, save_ret >>
    /\ UNCHANGED << config, start_dt, end_dt, driver, gall_no,
                    crawl_article_based_on_gall_no, collected_gall_no,
                    article_data, store, error, interrupted, rerun,
                    store0, flushes, slept, requests >>

\* The fetch with comments: article_data = process_article();
\* batch.append(article_data), whatever it is; then the threshold test.
DateSecondFetchOf(pages, outcomes) ==
    /\ pc = "date_second"
    /\ \E page \in pages, cm \in outcomes :
          LET r == process_article(page, cm, gall_no, TRUE)
          IN IF r.kind = "raise"
             THEN /\ LeaveTry(r.exc)
                  /\ DropLocals
                  /\ UNCHANGED appended
             ELSE /\ article_data' = r.rec
                  /\ batch' = Append(batch, r.rec)
                  /\ appended' = IF r.rec # None
                                 THEN Append(appended, Val(r.rec)) ELSE appended
                  /\ AfterAppend(batch', "date", "date_adv")
                  /\ UNCHANGED << error, driver >>
    /\ slept' = FALSE
    /\ requests' = Append(requests, PostFetch(gall_no, TRUE))
    /\ UNCHANGED << config, start_dt, end_dt, gall_no,
                    crawl_article_based_on_gall_no, collected_gall_no, store,
                    interrupted, rerun, store0, flushes >>

\* The fetch with comments over the board of a run.
DateSecondFetch == DateSecondFetchOf(Pages, CommentOutcomes)

\* A post dated after end_date fetched again with its comments.
DateAfterEnd_refetches ==
    /\ pc = "date_got"
    /\ article_data # None
    /\ Val(article_data).date # None
    /\ Val(start_dt) <= Val(Val(article_data).date)
    /\ Val(Val(article_data).date) > Val(end_dt)
    /\ pc' = "date_second"
    /\ UNCHANGED << config, start_dt, end_dt, driver, gall_no,
                    crawl_article_based_on_gall_no, collected_gall_no, locals,
                    store, error, history >>

\* A post dated after end_date taken as the end of the traversal.
DateAfterEnd_breaks ==
    /\ pc = "date_got"
    /\ article_data # None
    /\ Val(article_data).date # None
    /\ Val(start_dt) <= Val(Val(article_data).date)
    /\ Val(Val(article_data).date) > Val(end_dt)
    /\ CallSave("date_final")
    /\ UNCHANGED << config, start_dt, end_dt, driver, gall_no,
                    crawl_article_based_on_gall_no, collected_gall_no, batch,
                    article_data, store, error, history >>

\* elif article_data.date > self.end_date: only the log line.
DateAfterEnd ==
    /\ pc = "date_got"
    /\ article_data # None
    /\ Val(article_data).date # None
    /\ Val(start_dt) <= Val(Val(article_data).date)
    /\ Val(Val(article_data).date) > Val(end_dt)
    /\ pc' = "date_adv"
    /\ UNCHANGED << config, start_dt, end_dt, driver, gall_no,
                    crawl_article_based_on_gall_no, collected_gall_no, locals,
                    store, error, history >>

\* A break of the date loop that leaves run() without the final flush.
DateBeforeStart_no_flush ==
    /\ pc = "date_got"
    /\ article_data # None
    /\ Val(article_data).date # None
    /\ Val(Val(article_data).date) < Val(start_dt)
    /\ LeaveTry("none")
    /\ DropLocals
    /\ UNCHANGED << config, start_dt, end_dt, gall_no,
                    crawl_article_based_on_gall_no, collected_gall_no, store,
                    history >>

\* elif article_data.date < self.start_date: break, then the final flush.
DateBeforeStart ==
    /\ pc = "date_got"
    /\ article_data # None
    /\ Val(article_data).date # None
    /\ Val(Val(article_data).date) < Val(start_dt)
    /\ CallSave("date_final")
    /\ UNCHANGED << config, start_dt, end_dt, driver, gall_no,
                    crawl_article_based_on_gall_no, collected_gall_no, batch,
                    article_data, store, error, history >>

\* self.gall_no -= 1; time.sleep(...).
DateAdvance ==
    /\ pc = "date_adv"
    /\ gall_no' = gall_no - 1
    /\ slept' = TRUE
    /\ pc' = "date_loop"
    /\ UNCHANGED << config, start_dt, end_dt, driver,
                    crawl_article_based_on_gall_no, collected_gall_no, locals,
                    store, error, interrupted, rerun, store0, appended, flushes,
                    requests >>

\* ---------------------------------------------------------- interruption
\* The positions inside the try statement of run().
TryPcs == {"id_loop", "id_got", "id_adv", "date_loop", "date_got",
           "date_second", "date_adv", "save"}

\* A KeyboardInterrupt inside the try statement, once per run, and the whole
\* except clause: save_data_in_batch on the batch as it is, batch.clear(),
\* then finally. A None in the batch ends the save with AttributeError.
KeyboardInterrupt ==
    /\ pc \in TryPcs
    /\ ~interrupted
    /\ interrupted' = TRUE
    /\ LET n == first_none(batch)
       IN /\ store' = store \o dump_articles(SubSeq(batch, 1, n - 1))
          /\ IF n <= Len(batch)
             THEN LeaveTry("AttributeError(date)") /\ UNCHANGED flushes
             ELSE LeaveTry("none") /\ flushes' = Append(flushes, Len(batch))
    /\ DropLocals
    /\ UNCHANGED << config, start_dt, end_dt, gall_no,
                    crawl_article_based_on_gall_no, collected_gall_no, rerun,
                    store0, appended, slept, requests >>

\* A second crawler built with the same arguments over the same file.
Rerun ==
    /\ pc = "exited"
    /\ ~rerun
    /\ rerun' = TRUE
    /\ store0' = store
    /\ appended' = << >>
    /\ flushes' = << >>
    /\ slept' = FALSE
    /\ requests' = << DriverStart >>
    /\ start_dt' = None
    /\ end_dt' = None
    /\ driver' = "open"
    /\ pc' = "run"
    /\ gall_no' = 0
    /\ crawl_article_based_on_gall_no' = None
    /\ collected_gall_no' = {}
    /\ error' = "none"
    /\ UNCHANGED << config, locals, store, interrupted >>

\* ---------------------------------------------------------- specifications
Next ==
    \/ CheckGalleryConditions
    \/ CheckScrappingConditions
    \/ LoadCollected
    \/ IdLoopExit
    \/ IdSkip
    \/ IdFetch
    \/ IdCollect
    \/ IdAdvance
    \/ SaveWrite
    \/ BatchClear
    \/ DateFetch
    \/ DateNone
    \/ DateNullDate
    \/ DateInWindow
    \/ DateSecondFetch
    \/ DateAfterEnd
    \/ DateBeforeStart
    \/ DateAdvance
    \/ KeyboardInterrupt

\* One run of the crawler.
Spec == Init /\ [][Next]_vars

\* The arguments of an id-mode run: both id bounds and no date bound.
InitIdMode ==
    /\ Init
    /\ start_gall_no # None
    /\ end_gall_no # None
    /\ start_date = None
    /\ end_date = None

NextTwoRuns ==
    \/ CheckGalleryConditions
    \/ CheckScrappingConditions
    \/ LoadCollected
    \/ IdLoopExit
    \/ IdSkip
    \/ IdFetch
    \/ IdCollect
    \/ IdAdvance
    \/ SaveWrite
    \/ BatchClear
    \/ Rerun

\* Two id-mode runs to completion, with the same arguments over the same
\* store.
SpecTwoRuns == InitIdMode /\ [][NextTwoRuns]_vars

\* The lines a file at jsonl_path can hold: records, lines json.loads rejects
\* and lines of valid JSON that are no record with a gall_no.
StoreLines ==
    {BadJsonLine, NoKeyLine}
        \cup { RecordLine(n, Some("2025.05.02"), << >>) : n \in 0..MaxId }

\* The files of at most MaxLines lines.
Stores == UNION { [1..n -> StoreLines] : n \in 0..MaxLines }

\* An id-mode run over the ids 1..MaxId that has passed its checks and is
\* about to load the collected ids from some file.
InitLoad ==
    /\ store \in Stores
    /\ start_gall_no = Some(1)
    /\ end_gall_no = Some(MaxId)
    /\ start_date = None
    /\ end_date = None
    /\ is_crawl_comments = FALSE
    /\ maximum_batch_size = 1
    /\ board = << >>
    /\ start_dt = None
    /\ end_dt = None
    /\ driver = "open"
    /\ pc = "load"
    /\ gall_no = 1
    /\ crawl_article_based_on_gall_no = Some(TRUE)
    /\ collected_gall_no = {}
    /\ batch = << >>
    /\ article_data = None
    /\ save_i = 1
    /\ save_ret = "none"
    /\ error = "none"
    /\ interrupted = FALSE
    /\ rerun = FALSE
    /\ store0 = store
    /\ appended = << >>
    /\ flushes = << >>
    /\ slept = FALSE
    /\ requests = << DriverStart, GalleryRequest >>

NextLoad == LoadCollected

\* load_collected_gall_no applied to every file of Stores.
SpecLoad == InitLoad /\ [][NextLoad]_vars

\* An id-mode run with comments over the single post 1, after its load of an
\* empty store.
InitComments ==
    /\ store = << >>
    /\ start_gall_no = Some(1)
    /\ end_gall_no = Some(1)
    /\ start_date = None
    /\ end_date = None
    /\ is_crawl_comments = TRUE
    /\ maximum_batch_size \in 1..MaxBatch
    /\ board = << >>
    /\ start_dt = None
    /\ end_dt = None
    /\ driver = "open"
    /\ pc = "id_loop"
    /\ gall_no = 1
    /\ crawl_article_based_on_gall_no = Some(TRUE)
    /\ collected_gall_no = {}
    /\ batch = << >>
    /\ article_data = None
    /\ save_i = 1
    /\ save_ret = "none"
    /\ error = "none"
    /\ interrupted = FALSE
    /\ rerun = FALSE
    /\ store0 = store
    /\ appended = << >>
    /\ flushes = << >>
    /\ slept = FALSE
    /\ requests = << DriverStart, GalleryRequest >>

NextComments ==
    \/ IdFetchComments
    \/ IdCollect
    \/ IdAdvance
    \/ IdLoopExit
    \/ SaveWrite
    \/ BatchClear

\* The fetch of a post with comments and its way into the store, for every
\* comment page.
SpecComments == InitComments /\ [][NextComments]_vars

\* ------------------------------------------------------- a fixed board
\* The posts of a gallery that does not change during the run: for each id of
\* 0..MaxId the day of its post, or None where there is no post.
Boards == [0..MaxId -> {None} \cup { Some(d) : d \in 1..3 }]

\* The dates of the posts of a board are non-decreasing in the post id.
Monotonic(b) ==
    \A m, n \in DOMAIN b :
        (m < n /\ b[m] # None /\ b[n] # None) => Val(b[m]) <= Val(b[n])

\* The page requests.get returns for post `no` of the board: the page of the
\* post with its date, title and counters, or the page of a deleted post.
BoardPage(no) ==
    IF no \in DOMAIN board /\ board[no] # None
    THEN [net |-> TRUE,
          date_text |-> Some(<< strftime(Val(board[no])), "10:00:00" >>),
          title |-> TRUE, counts |-> TRUE]
    ELSE [net |-> TRUE, date_text |-> None, title |-> FALSE, counts |-> FALSE]

\* The comment pages of a post whose comments load: none, or a list.
LoadedComments == { cm \in CommentOutcomes : cm.load \in {"timeout", "ok"} }

\* The fetches of the date loop when every fetch shows the post of the board.
DateFetchBoard == DateFetchOf({BoardPage(gall_no)}, LoadedComments)
DateSecondFetchBoard == DateSecondFetchOf({BoardPage(gall_no)}, LoadedComments)

\* A crawler built with date bounds only, over a board with monotonic dates.
InitBoard ==
    /\ start_gall_no = None
    /\ end_gall_no = None
    /\ start_date \in DateBounds
    /\ end_date \in DateBounds
    /\ is_crawl_comments \in BOOLEAN
    /\ maximum_batch_size \in 1..MaxBatch
    /\ store \in InitialStores
    /\ board \in { b \in Boards : Monotonic(b) }
    /\ start_dt = None
    /\ end_dt = None
    /\ driver = "open"
    /\ pc = "run"
    /\ gall_no = 0
    /\ crawl_article_based_on_gall_no = None
    /\ collected_gall_no = {}
    /\ batch = << >>
    /\ article_data = None
    /\ save_i = 1
    /\ save_ret = "none"
    /\ error = "none"
    /\ interrupted = FALSE
    /\ rerun = FALSE
    /\ store0 = store
    /\ appended = << >>
    /\ flushes = << >>
    /\ slept = FALSE
    /\ requests = << DriverStart >>

NextBoard ==
    \/ CheckGalleryConditions
    \/ CheckScrappingConditions
    \/ LoadCollected
    \/ DateFetchBoard
    \/ DateNone
    \/ DateInWindow
    \/ DateSecondFetchBoard
    \/ DateAfterEnd
    \/ DateBeforeStart
    \/ DateAdvance
    \/ SaveWrite
    \/ BatchClear

\* An uninterrupted date-mode run over a fixed board with monotonic dates, on
\* which no fetch fails.
SpecBoard == InitBoard /\ [][NextBoard]_vars

\* ------------------------------------------------------------ properties
\* The post ids of the records of a store.
IdsOf(lines) ==
    { lines[i].gall_no : i \in { j \in DOMAIN lines : lines[j].kind = "record" } }

\* No two records of a store carry the same post id.
NoDuplicatePostId(lines) ==
    \A i, j \in DOMAIN lines :
        (i # j /\ lines[i].kind = "record" /\ lines[j].kind = "record")
            => lines[i].gall_no # lines[j].gall_no

\* The lines this run has added to the store.
Written == SubSeq(store, Len(store0) + 1, Len(store))

\* The run is in id mode, in date mode.
IdMode == crawl_article_based_on_gall_no = Some(TRUE)
DateMode == crawl_article_based_on_gall_no = Some(FALSE)

\* The step is the arrival of the KeyboardInterrupt.
InterruptStep == ~interrupted /\ interrupted'

\* C1: two id-mode runs to completion over the same range and store leave no
\* two records with the same postId: the second run's DedupIndex holds every
\* id the store held when it started, and the second run appends none of them.
C1_DedupIdempotence ==
    /\ NoDuplicatePostId(store)
    /\ (rerun /\ IdMode /\ pc # "load")
          => /\ IdsOf(store0) \subseteq collected_gall_no
             /\ \A i \in DOMAIN appended :
                   appended[i].gall_no \notin IdsOf(store0)

\* C1 witness: a second run has ended that skipped at least two ids of the
\* store and collected a post the first run had missed.
C1_Witness ==
    /\ rerun
    /\ pc = "exited"
    /\ error = "none"
    /\ Cardinality(IdsOf(store0)) >= 2
    /\ Len(store) > Len(store0)

\* C2: after an interruption of the traversal loop every record appended to
\* the batch during the run is in the store when run() is over.
C2_InterruptFlushesBatch ==
    (pc = "exited" /\ interrupted)
        => \A i \in DOMAIN appended :
              \E j \in DOMAIN Written : Written[j] = dump_article(appended[i])

\* C3: the browser driver is released on every exit path of run().
C3_DriverReleased == pc = "exited" => driver = "quit"

\* The exceptions of a failed fetch of one post: a missing title or counter,
\* a blank or unparseable date, a failure of the browser.
FetchErrors ==
    {"AttributeError(text)", "IndexError", "TypeError", "WebDriverException"}

\* C4: no per-post failure of the post adapter ends the run: run() never ends
\* with the exception of a failed fetch.
C4_FetchFailuresAreSkips == error \notin FetchErrors

\* The fetch of this iteration gave a record with a parsed date.
HasDate == article_data # None /\ Val(article_data).date # None
FetchedDate == Val(Val(article_data).date)

\* The positions of the date loop where a fetch is made or its outcome read.
DateFetchPcs == {"date_loop", "date_got", "date_second"}

\* C5, step by step: a post dated startDate stays in the loop and, unless its
\* id is in the DedupIndex, is collected; a post dated before startDate is
\* not collected and ends the loop; nothing else ends the loop.
C5_Step ==
    /\ (DateMode /\ pc = "date_got" /\ HasDate /\ ~InterruptStep
          /\ FetchedDate = Val(start_dt))
          => /\ pc' \in {"date_adv", "date_second", "save"}
             /\ pc' = "save" => save_ret' = "date"
    /\ (DateMode /\ pc = "date_second" /\ ~InterruptStep
          /\ FetchedDate = Val(start_dt))
          => /\ Len(appended') = Len(appended) + 1
             /\ appended'[Len(appended')].gall_no = gall_no
             /\ pc' \in {"date_adv", "save"}
             /\ pc' = "save" => save_ret' = "date"
    /\ (DateMode /\ pc = "date_got" /\ HasDate /\ ~InterruptStep
          /\ FetchedDate < Val(start_dt))
          => /\ pc' = "save"
             /\ save_ret' = "date_final"
             /\ UNCHANGED << batch, appended >>
    /\ (DateMode /\ pc \in DateFetchPcs /\ ~InterruptStep
          /\ (pc' = "exited" \/ (pc' = "save" /\ save_ret' = "date_final")))
          => (pc = "date_got" /\ HasDate /\ FetchedDate < Val(start_dt))

\* C5: in date mode a post dated exactly startDate is collected without
\* ending the traversal, the first post dated before startDate ends it
\* uncollected, and no other fetch outcome ends the descending loop.
C5_DateWindowBoundary == [][C5_Step]_vars

\* C6: in date mode a first fetch that yields no record only decrements the
\* cursor: the loop goes on with the next fetch, without a sleep, and batch
\* and store are as they were.
C6_DeletedPostOnlyDecrements ==
    [][(pc = "date_got" /\ article_data = None /\ ~InterruptStep)
          => /\ gall_no' = gall_no - 1
             /\ pc' = "date_loop"
             /\ ~slept'
             /\ UNCHANGED << batch, store, appended, flushes >>]_vars

\* C6 witness: the date loop is about to fetch again right after a fetch
\* without record, with a record waiting in the batch.
C6_Witness ==
    /\ DateMode
    /\ pc = "date_loop"
    /\ article_data = None
    /\ ~slept
    /\ batch # << >>
    /\ ~interrupted

\* The flush sizes of n records under threshold t: n \div t flushes of t, then
\* the final flush of the rest.
FlushSizes(n, t) ==
    [i \in 1..((n \div t) + 1) |-> IF i <= n \div t THEN t ELSE n % t]

\* C7: an id-mode run that collects N posts under threshold T flushes
\* N \div T times T records and at the end the N % T left, in cursor order,
\* and its batch never holds more than T records.
C7_FlushOnThreshold ==
    /\ IdMode => Len(batch) <= maximum_batch_size
    /\ (IdMode /\ pc = "exited" /\ error = "none" /\ ~interrupted)
          => /\ flushes = FlushSizes(Len(appended), maximum_batch_size)
             /\ Written = [i \in 1..Len(appended) |-> dump_article(appended[i])]
             /\ \A i, j \in DOMAIN appended :
                   i < j => appended[i].gall_no < appended[j].gall_no

\* C7 witness: threshold 2 and three collected posts, flushed as 2 then 1.
C7_Witness ==
    /\ IdMode
    /\ pc = "exited"
    /\ error = "none"
    /\ ~interrupted
    /\ maximum_batch_size = 2
    /\ Len(appended) = 3
    /\ flushes = << 2, 1 >>

\* Both bounds of the pair are given.
fully_set(a, b) == a # None /\ b # None

\* The positions of run() before the traversal loop, and its end.
BeforeLoopPcs == {"run", "scrapping", "exited"}

\* The errors that can end run() while the bounds are checked and rejected.
RejectionErrors == {"NotFoundError(gallery)", "ConfigurationError"}

\* C8: with both pairs fully set, or with no pair fully set, the bounds are
\* rejected with a configuration error: the loop is never entered and nothing
\* is written.
C8_MutualExclusivity ==
    ((fully_set(start_gall_no, end_gall_no) /\ fully_set(start_date, end_date))
       \/ (~fully_set(start_gall_no, end_gall_no)
             /\ ~fully_set(start_date, end_date)))
        => /\ pc \in BeforeLoopPcs
           /\ pc = "exited" => error \in RejectionErrors
           /\ store = store0
           /\ batch = << >>

\* C8 witness: both ranges were given with bounds that pass every other test,
\* and the run has ended with the configuration error.
C8_Witness ==
    /\ start_gall_no = Some(1)
    /\ end_gall_no = Some(2)
    /\ start_date = Some("2025.05.02")
    /\ end_date = Some("2025.05.03")
    /\ pc = "exited"
    /\ error = "ConfigurationError"

\* C9: with exactly one bound of the id pair or of the date pair given,
\* whatever the values, the bounds are rejected with a configuration error.
C9_PartialPairRejected ==
    (half_set(start_gall_no, end_gall_no) \/ half_set(start_date, end_date))
        => /\ pc \in BeforeLoopPcs
           /\ pc = "exited" => error \in RejectionErrors

\* C10: a fully-set id pair with startId <= endId and no date bound resolves
\* to id mode with the cursor at startId.
C10_IdModeResolves ==
    (fully_set(start_gall_no, end_gall_no) /\ Val(start_gall_no) <= Val(end_gall_no)
       /\ start_date = None /\ end_date = None)
        => /\ error # "ConfigurationError"
           /\ pc = "load" => (IdMode /\ gall_no = Val(start_gall_no))

\* The kinds of network activity behind the requests made so far.
ActivityKinds == { requests[i].kind : i \in DOMAIN requests }

\* C11: when the bounds are rejected with a configuration error, nothing has
\* touched the network yet: no driver start, no board-existence request, no
\* recent-id lookup and no post fetch.
C11_ConfigErrorBeforeNetwork ==
    error = "ConfigurationError" => ActivityKinds = {}

\* C12: a record of a successful fetch has a date: no record with a null date
\* is held as the fetched article, is in the batch or is written to the store.
C12_RecordDateNonNull ==
    /\ article_data # None => Val(article_data).date # None
    /\ \A i \in DOMAIN batch : batch[i] # None => Val(batch[i]).date # None
    /\ \A i \in DOMAIN Written :
          Written[i].kind = "record" => Written[i].date # None

\* The post ids of the lines this run has written, in file order.
WrittenIds == [i \in DOMAIN Written |-> Written[i].gall_no]

\* C13: the records a run writes are in cursor order over all its flushes:
\* strictly increasing post ids in id mode, strictly decreasing in date mode.
C13_WrittenInCursorOrder ==
    \A i, j \in DOMAIN WrittenIds :
        i < j => /\ IdMode => WrittenIds[i] < WrittenIds[j]
                 /\ DateMode => WrittenIds[i] > WrittenIds[j]

\* Sequence a is a prefix of sequence b.
IsPrefix(a, b) == Len(a) <= Len(b) /\ SubSeq(b, 1, Len(a)) = a

\* C14: every step leaves what the store held in place, as a prefix of the
\* new content, and a step that completes a flush leaves the batch empty.
C14_AppendOnly ==
    [][/\ IsPrefix(store, store')
       /\ Len(flushes') > Len(flushes) => batch' = << >>]_vars

\* C14 witness: over a store that earlier runs had written, a threshold flush
\* has added lines and cleared the batch, and the traversal goes on.
C14_Witness ==
    /\ store0 # << >>
    /\ IsPrefix(store0, store)
    /\ Len(store) > Len(store0)
    /\ flushes # << >>
    /\ batch = << >>
    /\ pc \in {"id_adv", "date_adv"}

\* The load of the collected ids has been done.
Loaded == pc \notin {"run", "scrapping", "load"}

\* C15: the load returns the post ids of all the well-formed lines of the
\* store: a line of invalid JSON or without a usable gall_no is skipped on its
\* own, and an empty store gives the empty set.
C15_LoadSkipsMalformedLines ==
    Loaded => collected_gall_no = IdsOf(store0)

\* The comments sequence of a line has only comments and replies of
\* non-empty text.
NonEmptyTexts(comments) ==
    \A i \in DOMAIN comments :
        /\ comments[i].text # ""
        /\ \A k \in DOMAIN comments[i].replies : comments[i].replies[k] # ""

\* C16: every comment text and every reply of a persisted comments sequence
\* is a non-empty string, and every kept comment carries a replies sequence.
C16_PersistedCommentsNonEmpty ==
    \A i \in DOMAIN Written :
        /\ NonEmptyTexts(Written[i].comments)
        /\ \A k \in DOMAIN Written[i].comments :
              "replies" \in DOMAIN Written[i].comments[k]

\* The post ids of the fetches of this run, in the order of the fetches.
FetchedIds ==
    LET posts == SelectSeq(requests, LAMBDA r : r.kind = "post")
    IN [i \in DOMAIN posts |-> posts[i].gall_no]

\* The ids of the range of an id-mode run that are not in the DedupIndex.
IdsToFetch ==
    { n \in Val(start_gall_no)..Val(end_gall_no) : n \notin collected_gall_no }

\* The run has gone through its whole loop and final flush.
Completed == pc = "exited" /\ error = "none" /\ ~interrupted

\* In id mode only ids of the range outside the DedupIndex are fetched, none
\* twice, and a completed run has fetched them all and stands at endId + 1.
C17_State ==
    IdMode =>
        /\ \A i \in DOMAIN FetchedIds : FetchedIds[i] \in IdsToFetch
        /\ \A i, j \in DOMAIN FetchedIds : i < j => FetchedIds[i] < FetchedIds[j]
        /\ Completed
              => /\ { FetchedIds[i] : i \in DOMAIN FetchedIds } = IdsToFetch
                 /\ gall_no = Val(end_gall_no) + 1

\* In id mode the cursor moves by +1 at the end of each iteration, a skip
\* included, and nowhere else.
C17_Step ==
    (IdMode /\ IdMode')
        => gall_no' = IF pc \in {"id_loop", "id_adv"} /\ pc' = "id_loop"
                      THEN gall_no + 1 ELSE gall_no

\* C17: a completed id-mode run fetches no id of the DedupIndex and no id
\* outside [startId, endId], fetches every other id of the range exactly
\* once, and moves its cursor by +1 per iteration up to endId + 1.
C17_IdModeFetchesOnce == []C17_State /\ [][C17_Step]_vars

\* C17 witness: a completed id-mode run over 1..3 with post 1 in the
\* DedupIndex: 2 and 3 were fetched, one of them gave no record.
C17_Witness ==
    /\ IdMode
    /\ Completed
    /\ start_gall_no = Some(1)
    /\ end_gall_no = Some(3)
    /\ collected_gall_no = {1}
    /\ FetchedIds = << 2, 3 >>
    /\ Len(appended) = 1
    /\ gall_no = 4

\* The latest request, and the step is a fetch of a post with its comments.
LastRequest == requests[Len(requests)]
WithCommentsFetchStep ==
    /\ Len(requests') = Len(requests) + 1
    /\ LastRequest'.kind = "post"
    /\ LastRequest'.comments

\* In date mode a fetch with comments follows at once the fetch without
\* comments of the same post, which gave a record dated within the window for
\* an id outside the DedupIndex, and with comments requested a record is
\* appended only by such a fetch, as that fetch returned it.
C18_Step ==
    DateMode =>
        /\ WithCommentsFetchStep
              => /\ is_crawl_comments
                 /\ LastRequest = PostFetch(gall_no, FALSE)
                 /\ LastRequest'.gall_no = gall_no
                 /\ HasDate
                 /\ Val(start_dt) <= FetchedDate
                 /\ FetchedDate <= Val(end_dt)
                 /\ gall_no \notin collected_gall_no
                 /\ article_data' # None
                       => appended' = Append(appended, Val(article_data'))
        /\ (is_crawl_comments /\ appended' # appended)
              => /\ WithCommentsFetchStep
                 /\ appended' = Append(appended, Val(article_data'))

\* C18: in date mode the fetch with comments of a post is made only when
\* comments are requested, right after the fetch without comments of the same
\* post returned a record dated within [startDate, endDate] whose id is not
\* in the DedupIndex, and the record appended is the one it returns.
C18_TwoPhaseFetch == [][C18_Step]_vars

\* C18 witness: the fetch without comments of post 1 gave a record dated in
\* the window, and the fetch with comments that followed gave the record with
\* a comment that is now the last one appended.
C18_Witness ==
    /\ DateMode
    /\ is_crawl_comments
    /\ Len(requests) >= 2
    /\ LastRequest = PostFetch(1, TRUE)
    /\ requests[Len(requests) - 1] = PostFetch(1, FALSE)
    /\ appended # << >>
    /\ appended[Len(appended)].gall_no = 1
    /\ appended[Len(appended)].comments # << >>
    /\ pc \in {"date_adv", "save"}

\* Day d lies within [start_date, end_date].
InWindow(d) == Val(start_dt) <= d /\ d <= Val(end_dt)

\* The number of lines this run has written for post n.
TimesWritten(n) == Cardinality({ i \in DOMAIN Written : Written[i].gall_no = n })

\* C19: over a board with monotonic dates on which no fetch fails, a date-mode
\* run that terminates normally has written exactly once every post of the
\* board at or below the starting cursor that is dated within the window and
\* is not in the DedupIndex, and has written no post dated outside the window.
C19_DateModeComplete ==
    (DateMode /\ Completed)
        => /\ \A n \in DOMAIN board :
                 (n <= FetchedIds[1] /\ board[n] # None
                    /\ InWindow(Val(board[n])) /\ n \notin collected_gall_no)
                     => TimesWritten(n) = 1
           /\ \A i \in DOMAIN Written :
                 /\ board[Written[i].gall_no] # None
                 /\ InWindow(Val(board[Written[i].gall_no]))
                 /\ Written[i].date = Some(strftime(Val(board[Written[i].gall_no])))

\* C19 witness: a completed run that started at post 3 over a board whose
\* posts 1, 2 and 3 are dated within the window and post 0 before it, with
\* post 1 already in the store: it has written 3 and 2.
C19_Witness ==
    /\ DateMode
    /\ Completed
    /\ FetchedIds[1] = 3
    /\ board[0] # None
    /\ \A n \in 1..3 : board[n] # None /\ InWindow(Val(board[n]))
    /\ collected_gall_no = {1}
    /\ WrittenIds = << 3, 2 >>

\* The record of the first fetch of this iteration is dated after end_date.
AfterEnd == DateMode /\ HasDate /\ FetchedDate > Val(end_dt)

\* A fetched post dated after end_date goes to the end of the iteration with
\* nothing collected or written, and the end of the iteration decrements the
\* cursor, takes the delay and goes back to the fetch.
C20_Step ==
    /\ (AfterEnd /\ pc = "date_got" /\ ~InterruptStep)
          => /\ pc' = "date_adv"
             /\ UNCHANGED << gall_no, batch, store, appended, flushes >>
    /\ (AfterEnd /\ pc = "date_adv" /\ ~InterruptStep)
          => /\ gall_no' = gall_no - 1
             /\ slept'
             /\ pc' = "date_loop"
             /\ UNCHANGED << batch, store, appended, flushes >>

\* C20: in date mode a fetched post dated after endDate is not collected and
\* does not stop the traversal: the cursor goes down by one, the delay is
\* taken and the loop goes on, with batch and store as they were.
C20_AfterEndContinues == [][C20_Step]_vars

\* C20 witness: the loop is about to fetch again, one id below a post whose
\* fetch gave a date after end_date, after the delay, with a record from an
\* earlier iteration still in the batch.
C20_Witness ==
    /\ AfterEnd
    /\ pc = "date_loop"
    /\ slept
    /\ ~interrupted
    /\ LastRequest = PostFetch(gall_no + 1, FALSE)
    /\ Val(article_data).gall_no = gall_no + 1
    /\ batch # << >>

\* The ids of the posts of the board, and the cursor the run started from.
PostIds == { n \in DOMAIN board : board[n] # None }
StartCursor == IF FetchedIds = << >> THEN gall_no ELSE FetchedIds[1]

\* C21: a date-mode run over a finite board leaves its loop before the
\* descending cursor passes the smallest post id of the board: a run that
\* starts on the board never has its cursor below that id.
C21_CursorStaysOnBoard ==
    (DateMode /\ PostIds # {} /\ \A n \in PostIds : n <= StartCursor)
        => \E n \in PostIds : n <= gall_no

\* C22: an interrupt during a threshold flush, after some or all of its
\* records are written and before the batch is cleared, makes no record be
\* written twice: no post has two lines among those this run has written.
C22_InterruptedFlushNoDuplicate ==
    \A i \in DOMAIN Written : TimesWritten(Written[i].gall_no) = 1

\* C23: every element of the batch is a record, in both modes: a fetch with
\* comments that yields no record appends nothing.
C23_BatchElementsNonNull ==
    \A i \in DOMAIN batch : batch[i] # None

\* C24: when run() is over, however it ended once the traversal loop had
\* started, every record appended to the batch during the run is in the
\* store.
C24_AppendedRecordsStored ==
    pc = "exited"
        => \A i \in DOMAIN appended :
              \E j \in DOMAIN Written : Written[j] = dump_article(appended[i])

=============================================================================
